---- MODULE Spec2Model ----
(***************************************************************************)
(* Job runner (apps/scheduler/tasks.py: execute_job) and DAG execution     *)
(* engine (apps/scheduler/services.py: DAGExecutionEngine) of the OPS      *)
(* scheduler.                                                              *)
(*                                                                         *)
(* Spec     one flow execution: DAGExecutionEngine.execute, its thread     *)
(*          pool and the execute_job attempts its nodes make.              *)
(* SpecJob  one stand-alone execute_job task (cron or manual trigger) with *)
(*          its Celery retries.                                            *)
(***************************************************************************)
EXTENDS Integers, Sequences, FiniteSets, TLC

\* ------------------------------------------------------------------ bounds
\* Job.retry_count is drawn from 0..MaxRetryCount.
MaxRetryCount == 4
\* dag_config['max_parallel'] is drawn from 1..MaxParallel.
MaxParallel == 2
\* At most MaxFaulty nodes of a flow carry a job other than the succeeding one.
MaxFaulty == 2
\* Job.alert_channels holds at most MaxChannels channels.
MaxChannels == 2

\* ------------------------------------------------------- program constants
\* @shared_task(bind=True, max_retries=3)
max_retries == 3

NodeIds == {"A", "B", "C", "D"}
\* "X" is a node id that no flow defines: the end of a dangling edge.
AllIds == NodeIds \cup {"X"}

JOB_TYPE_CHOICES == {"http", "shell", "sql", "python"}

ERROR_STRATEGY_FAIL_FAST == "fail_fast"
ERROR_STRATEGY_CONTINUE == "continue"
ERROR_STRATEGY_SKIP_DOWNSTREAM == "skip_downstream"
Strategies ==
    {ERROR_STRATEGY_FAIL_FAST, ERROR_STRATEGY_CONTINUE, ERROR_STRATEGY_SKIP_DOWNSTREAM}

\* What the job's action does on an attempt: it returns, it raises, or it runs
\* longer than job.timeout.
Behaviours == {"ok", "error", "error_once", "slow"}

VARIABLES
    \* the flow definition (DAGExecutionEngine.__init__)
    nodes,            \* self.nodes: the node ids of dag_config['nodes']
    edges,            \* self.edges: pairs <<source, target>>
    condition,        \* node id -> the node's 'condition'
    upstream_results, \* node id -> the node ids its 'upstream_results' names
    error_strategy,   \* self.error_strategy
    max_parallel,     \* self.max_parallel
    \* the Job rows, one per node id (the node's job_id)
    jobs,
    \* Job.alert_channels of the job whose alerts are sent, and the channels
    \* whose delivery fails
    alert_channels,
    faulty_channels,
    \* execute_job's trigger_type argument
    trigger_type,
    \* DAGExecutionEngine.execute
    pc,               \* where execute() stands
    pending,          \* pending
    executed,         \* executed
    results,          \* self.results: node id -> the 'status' of its result
    status,           \* self.status
    failed_nodes,     \* self.failed_nodes
    skipped_nodes,    \* self.skipped_nodes
    futures,          \* the futures of the current ThreadPoolExecutor block
    handled,          \* the futures as_completed has yielded so far
    workers,          \* the pool's max_workers
    flow_instance,    \* FlowInstance.status ("none": no row)
    returned,         \* the 'status' of the dictionary execute() returned
    \* the task of each node / job: its future and its execute_job request
    run,
    \* the JobLog rows of each job, in creation order
    logs,
    \* the send_job_alert tasks scheduled for each job
    alerts,
    \* check_running_jobs: the JobLog rows its query has loaded and its loop
    \* has yet to visit, as pairs <<job, index of the row>>
    stuck_logs,
    \* the JobAlert rows of each job, in creation order
    job_alerts,
    \* the send_job_alert task that is running: its job, its position in the
    \* channel list and the channels a sender was called for
    send,
    \* the Job and JobFlow rows the schedules are synced for, the PeriodicTask
    \* rows of Celery Beat, and the row the last sync was called for
    rows,
    periodic_tasks,
    last_sync,
    \* a cancellation asked for the FlowInstance: whether one was, and the
    \* nodes that had not started then
    cancel

vars == <<nodes, edges, condition, upstream_results, error_strategy, max_parallel,
          jobs, alert_channels, faulty_channels, trigger_type,
          pc, pending, executed, results, status, failed_nodes, skipped_nodes,
          futures, handled, workers, flow_instance, returned, run, logs, alerts,
          stuck_logs, job_alerts, send, rows, periodic_tasks, last_sync,
          cancel>>

flowVars == <<nodes, edges, condition, upstream_results, error_strategy, max_parallel,
              jobs, alert_channels, faulty_channels, trigger_type>>

alertVars == <<job_alerts, send>>

syncVars == <<rows, periodic_tasks, last_sync>>
engineVars == <<pc, pending, executed, results, status, failed_nodes, skipped_nodes,
                futures, handled, workers, flow_instance, returned>>

\* ------------------------------------------------------------ job runner

\* What the job's action does on the attempt whose request.retries is r.
ActionBehaviour(job, r) ==
    IF job.behav = "error_once"
    THEN (IF r = 0 THEN "error" ELSE "ok")
    ELSE job.behav

\* _execute_http_job / _execute_shell_job / _execute_sql_job / _execute_python_job:
\* how the call ends. Only subprocess.run raises subprocess.TimeoutExpired;
\* requests raises its own Timeout (an ordinary Exception); the sql and python
\* executors are given no deadline and run to their end.
Executor(job, r) ==
    LET b == ActionBehaviour(job, r) IN
    CASE b = "ok" -> "return"
      [] b = "error" -> "exception"
      [] b = "slow" /\ job.job_type = "shell" -> "TimeoutExpired"
      [] b = "slow" /\ job.job_type = "http" -> "exception"
      [] OTHER -> "return"

\* self.retry(countdown=..., exc=e) on the request whose retries is r: Celery
\* raises exc itself once retries + 1 exceeds the task's max_retries, and
\* otherwise re-runs the task with retries + 1.
RetryAllowed(r) == r + 1 <= max_retries

\* A faulty variant of the retry guard: "<=" in place of "<".
ShouldRetry_inclusive(job, r) == r <= job.retry_count

\* "if self.request.retries < job.retry_count"
ShouldRetry(job, r) == r < job.retry_count

SetLast(s, st) == [s EXCEPT ![Len(s)].status = st]

\* execute_job up to JobLog.objects.create: the task of job n starts an attempt.
execute_job_begin(n) ==
    /\ run[n].st = "ready"
    /\ IF jobs[n].job_id = "unknown"
       THEN \* Job.DoesNotExist: {'status': 'error'}
            /\ run' = [run EXCEPT ![n].st = "done", ![n].out = "error"]
            /\ logs' = logs
       ELSE /\ run' = [run EXCEPT ![n].st = "running"]
            /\ logs' = [logs EXCEPT ![n] = Append(@,
                          [status |-> "running",
                           retry_count |-> run[n].retries,
                           trigger_type |-> trigger_type])]
    /\ UNCHANGED <<flowVars, cancel, syncVars, alertVars, stuck_logs, engineVars, alerts>>

\* execute_job from the executor call to its return, retry or raise.
execute_job_end(n) ==
    /\ run[n].st = "running"
    /\ LET job == jobs[n]
           r == run[n].retries
           o == Executor(job, r)
       IN
       CASE o = "return" ->
              /\ logs' = [logs EXCEPT ![n] = SetLast(@, "success")]
              /\ run' = [run EXCEPT ![n].st = "done", ![n].out = "success"]
              /\ alerts' = alerts
         [] o = "TimeoutExpired" ->
              /\ logs' = [logs EXCEPT ![n] = SetLast(@, "timeout")]
              /\ run' = [run EXCEPT ![n].st = "done", ![n].out = "timeout"]
              /\ alerts' = IF job.alert_on_timeout
                           THEN [alerts EXCEPT ![n] = Append(@, "timeout")]
                           ELSE alerts
         [] OTHER ->
              /\ logs' = [logs EXCEPT ![n] = SetLast(@, "failed")]
              /\ IF ShouldRetry(job, r)
                 THEN /\ alerts' = alerts
                      /\ IF RetryAllowed(r)
                         THEN run' = [run EXCEPT ![n].st = "ready", ![n].retries = r + 1]
                         ELSE run' = [run EXCEPT ![n].st = "done", ![n].out = "raised"]
                 ELSE /\ alerts' = IF job.alert_on_failure
                                   THEN [alerts EXCEPT ![n] = Append(@, "failure")]
                                   ELSE alerts
                      /\ run' = [run EXCEPT ![n].st = "done", ![n].out = "failed"]
    /\ UNCHANGED <<flowVars, cancel, syncVars, alertVars, stuck_logs, engineVars>>

\* A run that can last longer than an hour and than twice Job.timeout: the
\* sql and python executors are given no deadline.
Overdue(job) == job.behav = "slow" /\ job.job_type \in {"sql", "python"}

\* check_running_jobs, the query: the rows with status 'running' that started
\* more than an hour ago.
check_running_jobs_query ==
    /\ stuck_logs' = {<<n, Len(logs[n])>> : n \in
                        {m \in NodeIds : /\ logs[m] # <<>>
                                         /\ logs[m][Len(logs[m])].status = "running"
                                         /\ Overdue(jobs[m])}}
    /\ stuck_logs' # stuck_logs
    /\ UNCHANGED <<flowVars, cancel, syncVars, alertVars, engineVars, run, logs, alerts>>

\* check_running_jobs, the loop body for one loaded row: past twice the job's
\* timeout the row is saved as 'timeout' and a timeout alert is scheduled.
check_running_jobs_mark(n, i) ==
    /\ <<n, i>> \in stuck_logs
    /\ stuck_logs' = stuck_logs \ {<<n, i>>}
    /\ logs' = [logs EXCEPT ![n][i].status = "timeout"]
    /\ alerts' = IF jobs[n].alert_on_timeout
                 THEN [alerts EXCEPT ![n] = Append(@, "timeout")]
                 ELSE alerts
    /\ UNCHANGED <<flowVars, cancel, syncVars, alertVars, engineVars, run>>

\* -------------------------------------------------------------- schedules

\* One Job row and one JobFlow row.
Entities == {"job", "flow"}

\* SchedulerService.TASK_PREFIX_JOB / TASK_PREFIX_FLOW followed by the id.
task_name(e) == IF e = "job" THEN "scheduler_job_1" ELSE "scheduler_flow_1"

\* The values of cron_expr, as the lists of their blank-separated parts: none,
\* two five-part expressions, a six-part one and one of three parts.
NoCron == <<>>
CronExprs ==
    { NoCron,
      <<"*", "*", "*", "*", "*">>,
      <<"0", "*", "*", "*", "*">>,
      <<"0", "0", "*", "*", "*", "*">>,
      <<"*", "*", "*">> }

\* A row that does not exist.
NoRow == [exists |-> FALSE, status |-> "enabled", cron_expr |-> NoCron]

\* last_sync: the entity and the row of the last sync call, and whether the
\* call before it was for the same entity and row.
NoSync == [entity |-> "none", row |-> NoRow, again |-> FALSE]

\* _parse_cron_expr: None below five parts, else the CrontabSchedule of the
\* first five.
parse_cron_expr(cron_expr) ==
    IF Len(cron_expr) < 5 THEN <<>> ELSE SubSeq(cron_expr, 1, 5)

\* _delete_periodic_task
delete_periodic_task(tasks, name) == {t \in tasks : t.name # name}

\* A faulty variant of update_or_create: a row is created whether or not one
\* of that name exists.
create(tasks, task) == tasks \cup {task}

\* PeriodicTask.objects.update_or_create(name=..., defaults=...)
update_or_create(tasks, task) == {t \in tasks : t.name # task.name} \cup {task}

\* A faulty variant of sync_job_schedule: a disabled row keeps its task.
sync_schedule_keep(tasks, e, row) ==
    IF row.status # "enabled"
    THEN tasks
    ELSE IF row.cron_expr = NoCron
    THEN delete_periodic_task(tasks, task_name(e))
    ELSE IF parse_cron_expr(row.cron_expr) = <<>>
    THEN tasks
    ELSE update_or_create(tasks,
            [name |-> task_name(e),
             task |-> IF e = "job" THEN "apps.scheduler.tasks.execute_job"
                      ELSE "apps.scheduler.tasks.execute_job_flow",
             crontab |-> parse_cron_expr(row.cron_expr),
             args |-> <<1>>,
             kwargs |-> IF e = "job" THEN "cron" ELSE "none",
             enabled |-> TRUE])

\* sync_job_schedule / sync_flow_schedule: the PeriodicTask rows after the
\* call for the row of e.
sync_schedule(tasks, e, row) ==
    IF row.status # "enabled" \/ row.cron_expr = NoCron
    THEN delete_periodic_task(tasks, task_name(e))
    ELSE IF parse_cron_expr(row.cron_expr) = <<>>
    THEN tasks
    ELSE update_or_create(tasks,
            [name |-> task_name(e),
             task |-> IF e = "job" THEN "apps.scheduler.tasks.execute_job"
                      ELSE "apps.scheduler.tasks.execute_job_flow",
             crontab |-> parse_cron_expr(row.cron_expr),
             args |-> <<1>>,
             kwargs |-> IF e = "job" THEN "cron" ELSE "none",
             enabled |-> TRUE])

\* A save of the row of e with the given fields, and its post_save handler.
save(e, row) ==
    /\ rows' = [rows EXCEPT ![e] = row]
    /\ periodic_tasks' = sync_schedule(periodic_tasks, e, row)
    /\ last_sync' = [entity |-> e, row |-> row,
                     again |-> last_sync.entity = e /\ last_sync.row = row]
    /\ UNCHANGED <<flowVars, cancel, alertVars, engineVars, stuck_logs, run, logs, alerts>>

\* JobListCreateView / JobFlowListCreateView (or the admin): a row is created.
create_row(e, st, cron) ==
    /\ ~rows[e].exists
    /\ save(e, [exists |-> TRUE, status |-> st, cron_expr |-> cron])

\* JobDetailView / JobFlowDetailView (or the admin): a row is saved, with
\* changed fields or as it is.
update_row(e, st, cron) ==
    /\ rows[e].exists
    /\ save(e, [exists |-> TRUE, status |-> st, cron_expr |-> cron])

\* JobPauseView
pause ==
    /\ rows["job"].exists
    /\ save("job", [rows["job"] EXCEPT !.status = "disabled"])

\* JobResumeView
resume ==
    /\ rows["job"].exists
    /\ save("job", [rows["job"] EXCEPT !.status = "enabled"])

\* The row of e is deleted, and its post_delete handler.
delete_row(e) ==
    /\ rows[e].exists
    /\ rows' = [rows EXCEPT ![e] = NoRow]
    /\ periodic_tasks' = delete_periodic_task(periodic_tasks, task_name(e))
    /\ last_sync' = NoSync
    /\ UNCHANGED <<flowVars, cancel, alertVars, engineVars, stuck_logs, run, logs, alerts>>

\* The rows sync_all_schedules visits: enabled, cron_expr not null.
to_sync(e) == rows[e].exists /\ rows[e].status = "enabled"

\* sync_all_schedules (the sync_schedules task): the job, then the flow.
sync_all_schedules ==
    /\ LET after_job == IF to_sync("job")
                        THEN sync_schedule(periodic_tasks, "job", rows["job"])
                        ELSE periodic_tasks
       IN periodic_tasks' = IF to_sync("flow")
                            THEN sync_schedule(after_job, "flow", rows["flow"])
                            ELSE after_job
    /\ last_sync' = NoSync
    /\ UNCHANGED <<flowVars, cancel, alertVars, engineVars, stuck_logs, run, logs, alerts, rows>>

\* ----------------------------------------------------------------- alerts

\* AlertService.CHANNEL_*
CHANNEL_EMAIL == "email"
CHANNEL_SMS == "sms"
CHANNEL_WECHAT == "wechat"
CHANNEL_DINGTALK == "dingtalk"
CHANNEL_FEISHU == "feishu"
CHANNEL_WEBHOOK == "webhook"

Channels == {CHANNEL_EMAIL, CHANNEL_SMS, CHANNEL_WECHAT, CHANNEL_DINGTALK,
             CHANNEL_FEISHU, CHANNEL_WEBHOOK}

\* The channels the if/elif chain of send_alert has a sender for.
SenderChannels == {CHANNEL_EMAIL, CHANNEL_DINGTALK, CHANNEL_FEISHU, CHANNEL_WEBHOOK}

\* No cancellation was asked for.
NoCancel == [requested |-> FALSE, unstarted |-> {}]

\* No send_job_alert task is running.
NoSend == [job |-> "none", i |-> 0, attempted |-> {}, failures |-> {}]

\* "channels = job.alert_channels or ['email']"
channels == IF alert_channels = <<>> THEN <<CHANNEL_EMAIL>> ELSE alert_channels

\* send_job_alert up to the call of AlertService.send_alert: the next
\* scheduled alert of job n gets its JobAlert row, 'pending'.
send_job_alert_begin(n) ==
    /\ send.job = "none"
    /\ Len(job_alerts[n]) < Len(alerts[n])
    /\ job_alerts' = [job_alerts EXCEPT ![n] = Append(@,
                         [alert_type |-> alerts[n][Len(job_alerts[n]) + 1],
                          status |-> "pending"])]
    /\ send' = [NoSend EXCEPT !.job = n]
    /\ UNCHANGED <<flowVars, cancel, syncVars, engineVars, stuck_logs, run, logs, alerts>>

\* One round of "for channel in channels": the channel's sender is called and
\* an exception of the delivery is logged; a channel without a sender is
\* logged as unknown.
send_alert_channel ==
    /\ send.job # "none"
    /\ send.i < Len(channels)
    /\ LET channel == channels[send.i + 1] IN
       send' = [send EXCEPT
                  !.i = @ + 1,
                  !.attempted = IF channel \in SenderChannels
                                THEN @ \cup {channel} ELSE @,
                  !.failures = IF channel \in SenderChannels \cap faulty_channels
                               THEN @ \cup {channel} ELSE @]
    /\ UNCHANGED <<flowVars, cancel, syncVars, engineVars, stuck_logs, run, logs, alerts, job_alerts>>

\* send_alert returns after its loop and send_job_alert saves the JobAlert
\* as 'sent'.
send_job_alert_end ==
    /\ send.job # "none"
    /\ send.i = Len(channels)
    /\ job_alerts' = [job_alerts EXCEPT
                         ![send.job][Len(job_alerts[send.job])].status = "sent"]
    /\ send' = [NoSend EXCEPT !.attempted = send.attempted,
                              !.failures = send.failures]
    /\ UNCHANGED <<flowVars, cancel, syncVars, engineVars, stuck_logs, run, logs, alerts>>

\* ------------------------------------------------------ dependency graph

\* _build_dependencies: target -> its sources.
build_dependencies(n) == {e[1] : e \in {f \in edges : f[2] = n}}

\* _build_dependents: source -> its targets.
build_dependents(n) == {e[2] : e \in {f \in edges : f[1] = n}}

\* The worklist loop of _get_downstream_nodes: to_visit and downstream.
RECURSIVE visit_downstream(_, _)
visit_downstream(to_visit, downstream) ==
    IF to_visit \subseteq downstream
    THEN downstream
    ELSE LET current == CHOOSE c \in to_visit : c \notin downstream IN
         visit_downstream((to_visit \ {current}) \cup build_dependents(current),
                          downstream \cup {current})

\* A faulty variant of _get_downstream_nodes: the walk follows the dependencies map
\* instead of the dependents map.
RECURSIVE visit_upstream(_, _)
visit_upstream(to_visit, upstream) ==
    IF to_visit \subseteq upstream
    THEN upstream
    ELSE LET current == CHOOSE c \in to_visit : c \notin upstream IN
         visit_upstream((to_visit \ {current}) \cup build_dependencies(current),
                        upstream \cup {current})

get_downstream_nodes_upstream(n) == visit_upstream(build_dependencies(n), {})

\* _get_downstream_nodes
get_downstream_nodes(n) == visit_downstream(build_dependents(n), {})

NoCondition == [type |-> "none", node_id |-> "none", value |-> "none"]

\* A faulty variant of _evaluate_condition: 'node_success' compares with a status the
\* job runner never reports.
evaluate_condition_completed(c) ==
    CASE c.type = "always" -> TRUE
      [] c.type = "node_success" -> status[c.node_id] = "completed"
      [] c.type = "node_failed" -> status[c.node_id] = "failed"
      [] c.type = "expression" -> c.value = "True"
      [] OTHER -> TRUE

\* _evaluate_condition; an 'expression' is eval'ed, and an exception of the
\* eval counts as False.
evaluate_condition(c) ==
    CASE c.type = "always" -> TRUE
      [] c.type = "node_success" -> status[c.node_id] = "success"
      [] c.type = "node_failed" -> status[c.node_id] = "failed"
      [] c.type = "expression" -> c.value = "True"
      [] OTHER -> TRUE

\* A faulty variant of _can_execute: the "dep not in executed" test is missing.
can_execute_unordered(n) ==
    /\ n \notin skipped_nodes
    /\ n \in nodes
    /\ \A dep \in {e[1] : e \in {f \in edges : f[2] = n}} :
          ~(dep \in failed_nodes /\ error_strategy = ERROR_STRATEGY_SKIP_DOWNSTREAM)
    /\ (condition[n].type # "none" =>
          (CASE condition[n].type = "node_success" -> status[condition[n].node_id] = "success"
             [] condition[n].type = "node_failed" -> status[condition[n].node_id] = "failed"
             [] condition[n].type = "expression" -> condition[n].value = "True"
             [] OTHER -> TRUE))

\* A faulty variant of _can_execute: a failed dependency blocks the node under
\* every strategy.
can_execute_strict(n) ==
    /\ n \notin skipped_nodes
    /\ n \in nodes
    /\ \A dep \in build_dependencies(n) :
          /\ dep \in executed
          /\ dep \notin failed_nodes
    /\ (condition[n].type # "none" => evaluate_condition(condition[n]))

\* _can_execute
can_execute(n) ==
    /\ n \notin skipped_nodes
    /\ n \in nodes
    /\ \A dep \in build_dependencies(n) :
          /\ dep \in executed
          /\ ~(dep \in failed_nodes /\ error_strategy = ERROR_STRATEGY_SKIP_DOWNSTREAM)
    /\ (condition[n].type # "none" => evaluate_condition(condition[n]))

\* _can_execute reaches "condition.get('type')" with a condition that has no
\* get: the AttributeError leaves _can_execute and the loop of execute.
condition_raises(n) ==
    /\ n \notin skipped_nodes
    /\ n \in nodes
    /\ \A dep \in build_dependencies(n) :
          /\ dep \in executed
          /\ ~(dep \in failed_nodes /\ error_strategy = ERROR_STRATEGY_SKIP_DOWNSTREAM)
    /\ condition[n].type = "malformed"

\* "ready_nodes = [node_id for node_id in pending if self._can_execute(...)]"
ready_nodes == {n \in pending : can_execute(n)}

\* A faulty variant of the overall status: the skipped set is looked at first.
overall_status_skipped_first(failed, skipped) ==
    IF skipped # {} THEN "partial"
    ELSE IF failed # {} THEN "failed"
    ELSE "success"

\* "Determine overall status"
overall_status(failed, skipped) ==
    IF failed # {} THEN "failed"
    ELSE IF skipped # {} THEN "partial"
    ELSE "success"

\* A faulty variant of "min(len(ready_nodes), self.max_parallel)": max.
Max(a, b) == IF a < b THEN b ELSE a

Min(a, b) == IF a < b THEN a ELSE b

\* ------------------------------------------------- DAGExecutionEngine.execute

\* From "Determine overall status" to the return of the result dictionary.
Finish(failed, skipped) ==
    /\ flow_instance' = overall_status(failed, skipped)
    /\ returned' = overall_status(failed, skipped)
    /\ pc' = "done"

\* FlowInstance.objects.create(status='running'), the dependency maps, and
\* executed = set(), pending = set(self.nodes.keys()).
execute_start ==
    /\ pc = "start"
    /\ flow_instance' = "running"
    /\ pending' = nodes
    /\ executed' = {}
    /\ pc' = "loop"
    /\ UNCHANGED <<flowVars, cancel, syncVars, alertVars, stuck_logs, results, status, failed_nodes, skipped_nodes,
                   futures, handled, workers, returned, run, logs, alerts>>

\* "while pending" with ready nodes: the ThreadPoolExecutor is made and every
\* ready node is submitted to it.
execute_submit ==
    /\ pc = "loop"
    /\ pending # {}
    /\ \A n \in pending : ~condition_raises(n)
    /\ ready_nodes # {}
    /\ futures' = ready_nodes
    /\ handled' = {}
    /\ workers' = Min(Cardinality(ready_nodes), max_parallel)
    /\ run' = [n \in NodeIds |->
                 IF n \in ready_nodes THEN [run[n] EXCEPT !.st = "queued"] ELSE run[n]]
    /\ pc' = "wave"
    /\ UNCHANGED <<flowVars, cancel, syncVars, alertVars, stuck_logs, pending, executed, results, status, failed_nodes,
                   skipped_nodes, flow_instance, returned, logs, alerts>>

\* "if not ready_nodes": the pending nodes are unreachable; they are marked
\* skipped, the loop is left and the run is finished.
execute_unreachable ==
    /\ pc = "loop"
    /\ pending # {}
    /\ \A n \in pending : ~condition_raises(n)
    /\ ready_nodes = {}
    /\ skipped_nodes' = skipped_nodes \cup pending
    /\ status' = [i \in AllIds |-> IF i \in pending THEN "skipped" ELSE status[i]]
    /\ Finish(failed_nodes, skipped_nodes \cup pending)
    /\ UNCHANGED <<flowVars, cancel, syncVars, alertVars, stuck_logs, pending, executed, results, failed_nodes,
                   futures, handled, workers, run, logs, alerts>>

\* The outer "except Exception" of execute: building ready_nodes raised. The
\* FlowInstance is saved as 'failed' and the dictionary returned carries
\* 'error' and no node sets; the pending nodes keep no status.
execute_abort ==
    /\ pc = "loop"
    /\ pending # {}
    /\ \E n \in pending : condition_raises(n)
    /\ flow_instance' = "failed"
    /\ returned' = "failed"
    /\ pc' = "error"
    /\ UNCHANGED <<flowVars, cancel, syncVars, alertVars, stuck_logs, pending, executed, results, status, failed_nodes,
                   skipped_nodes, futures, handled, workers, run, logs, alerts>>

\* "while pending" with pending empty: the run is finished.
execute_exit ==
    /\ pc = "loop"
    /\ pending = {}
    /\ Finish(failed_nodes, skipped_nodes)
    /\ UNCHANGED <<flowVars, cancel, syncVars, alertVars, stuck_logs, pending, executed, results, status, failed_nodes,
                   skipped_nodes, futures, handled, workers, run, logs, alerts>>

\* The nodes a pool thread is executing.
InFlight == {m \in futures : run[m].st \in {"ready", "running"}}

\* A pool thread takes the queued work item of node n: _execute_node up to
\* "if upstream_node_id in self.results": the upstream results the worker of
\* node n finds when it builds merged_params.
merged_upstream(n) == {u \in upstream_results[n] \cap NodeIds : results[u] # "none"}

\* A faulty variant of _execute_node: the worker also records its own node as
\* executed.
execute_node_writes(n) ==
    /\ pc \in {"wave", "drain"}
    /\ n \in futures
    /\ run[n].st = "queued"
    /\ Cardinality(InFlight) < workers
    /\ run' = IF jobs[n].job_id = "unset"
              THEN [run EXCEPT ![n].st = "done", ![n].out = "success"]
              ELSE [run EXCEPT ![n].st = "ready", ![n].retries = 0,
                               ![n].ups = merged_upstream(n)]
    /\ executed' = executed \cup {n}
    /\ UNCHANGED <<flowVars, cancel, syncVars, alertVars, stuck_logs, pc, pending, results, status, failed_nodes,
                   skipped_nodes, futures, handled, workers, flow_instance,
                   returned, logs, alerts>>

\* execute_job.apply (a node without job_id is virtual and succeeds at once).
\* The pool keeps taking queued items while execute() waits in its
\* with-block's exit.
execute_node(n) ==
    /\ pc \in {"wave", "drain"}
    /\ n \in futures
    /\ run[n].st = "queued"
    /\ Cardinality(InFlight) < workers
    /\ run' = IF jobs[n].job_id = "unset"
              THEN [run EXCEPT ![n].st = "done", ![n].out = "success"]
              ELSE [run EXCEPT ![n].st = "ready", ![n].retries = 0,
                               ![n].ups = merged_upstream(n)]
    /\ UNCHANGED <<flowVars, cancel, syncVars, alertVars, stuck_logs, engineVars, logs, alerts>>

\* The body of "for future in as_completed(futures)" for the finished future
\* of node n.
execute_completed(n) ==
    /\ pc = "wave"
    /\ n \in futures \ handled
    /\ run[n].st = "done"
    /\ LET out == run[n].out
           raised == out = "raised"
           st == IF raised THEN "failed" ELSE out
           failed == ~raised /\ out = "failed"
           brk == failed /\ error_strategy = ERROR_STRATEGY_FAIL_FAST
           others == IF brk THEN pending \ {n} ELSE {}
           downstream == IF failed /\ error_strategy = ERROR_STRATEGY_SKIP_DOWNSTREAM
                         THEN get_downstream_nodes(n) ELSE {}
           skip == others \cup downstream
       IN
       /\ results' = [results EXCEPT ![n] = st]
       /\ status' = [i \in AllIds |->
                       IF i \in skip THEN "skipped"
                       ELSE IF i = n THEN st ELSE status[i]]
       /\ failed_nodes' = IF st = "failed" THEN failed_nodes \cup {n} ELSE failed_nodes
       /\ skipped_nodes' = skipped_nodes \cup skip
       /\ pending' = IF brk THEN {} ELSE (pending \ downstream) \ {n}
       /\ executed' = IF brk THEN executed ELSE executed \cup {n}
       /\ handled' = handled \cup {n}
       /\ pc' = IF brk THEN "drain"
                ELSE IF handled \cup {n} = futures THEN "loop" ELSE "wave"
    /\ UNCHANGED <<flowVars, cancel, syncVars, alertVars, stuck_logs, futures, workers, flow_instance, returned, run, logs, alerts>>

\* After the fail_fast "break": the with-block's exit returns once every
\* submitted future has run to its end.
execute_drain ==
    /\ pc = "drain"
    /\ \A m \in futures : run[m].st = "done"
    /\ pc' = "loop"
    /\ UNCHANGED <<flowVars, cancel, syncVars, alertVars, stuck_logs, pending, executed, results, status, failed_nodes,
                   skipped_nodes, futures, handled, workers, flow_instance,
                   returned, run, logs, alerts>>

\* ---------------------------------------------------------------- inputs

\* A Job row with the model defaults alert_on_failure = alert_on_timeout = True.
\* job_id: "set" (the node names a Job row), "unset" (a virtual node),
\* "unknown" (the node names a Job that does not exist).
JobRow(id, type, behav, retry) ==
    [job_id |-> id, job_type |-> type, behav |-> behav, retry_count |-> retry,
     alert_on_failure |-> TRUE, alert_on_timeout |-> TRUE]

OkJob == JobRow("set", "python", "ok", 0)

\* The jobs the nodes of a flow are drawn from.
FlowJobs ==
    { OkJob,
      JobRow("set", "python", "error", 0),
      JobRow("set", "python", "error", MaxRetryCount),
      JobRow("set", "python", "error_once", 1),
      JobRow("set", "shell", "slow", 1),
      JobRow("set", "http", "slow", 1),
      JobRow("unset", "python", "ok", 0),
      JobRow("unknown", "python", "ok", 0) }

\* The jobs a stand-alone execute_job task is drawn from.
AllJobs ==
    [job_id : {"set"}, job_type : JOB_TYPE_CHOICES, behav : Behaviours,
     retry_count : 0..MaxRetryCount,
     alert_on_failure : BOOLEAN, alert_on_timeout : BOOLEAN]

NoConditions == [n \in NodeIds |-> NoCondition]
CondOn(n, c) == [NoConditions EXCEPT ![n] = c]

\* The conditions a node B may carry about node A.
Conditions ==
    { [type |-> "always", node_id |-> "none", value |-> "none"],
      [type |-> "node_success", node_id |-> "A", value |-> "none"],
      [type |-> "node_failed", node_id |-> "A", value |-> "none"],
      [type |-> "expression", node_id |-> "none", value |-> "True"],
      [type |-> "expression", node_id |-> "none", value |-> "False"],
      [type |-> "expression", node_id |-> "none", value |-> "raise"],
      \* a 'condition' that is no dictionary, such as a string
      [type |-> "malformed", node_id |-> "none", value |-> "none"] }

\* No node declares upstream_results.
NoUpstream == [n \in NodeIds |-> {}]

\* Node n binds parameters to the results of the nodes us.
UpstreamOn(n, us) == [NoUpstream EXCEPT ![n] = us]

FlowU(ns, es, cs, us) ==
    [nodes |-> ns, edges |-> es, condition |-> cs, upstream_results |-> us]

Flow(ns, es, cs) == FlowU(ns, es, cs, NoUpstream)

Chain == {<<"A", "B">>}
Diamond == {<<"A", "B">>, <<"A", "C">>, <<"B", "D">>, <<"C", "D">>}

\* The flow definitions an execution is drawn from.
Flows ==
    { Flow({"A", "B"}, Chain, NoConditions),
      Flow({"A", "B", "C", "D"}, Diamond, NoConditions),
      \* B takes a parameter from the result of A: its dependency, or a
      \* node it does not depend on
      FlowU({"A", "B"}, Chain, NoConditions, UpstreamOn("B", {"A"})),
      FlowU({"A", "B"}, {}, NoConditions, UpstreamOn("B", {"A"})),
      \* B after A, C independent of both
      Flow({"A", "B", "C"}, Chain, NoConditions),
      \* three roots
      Flow({"A", "B", "C"}, {}, NoConditions),
      \* a cycle B <-> C, A outside it
      Flow({"A", "B", "C"}, {<<"B", "C">>, <<"C", "B">>}, NoConditions),
      \* a cycle B <-> C downstream of A
      Flow({"A", "B", "C"}, {<<"A", "B">>, <<"B", "C">>, <<"C", "B">>}, NoConditions),
      \* a self-loop
      Flow({"A", "B"}, {<<"B", "B">>}, NoConditions),
      \* dangling edges: the source, then the target, is no node of the flow
      Flow({"A", "B"}, {<<"X", "B">>}, NoConditions),
      Flow({"A", "B"}, {<<"A", "X">>}, NoConditions) }
    \cup { Flow({"A", "B"}, Chain, CondOn("B", c)) : c \in Conditions }
    \cup { Flow({"A", "B"}, {}, CondOn("B", c)) : c \in Conditions }

\* st: the future's state; retries: request.retries; out: the outcome;
\* ups: the upstream results _execute_node merged into the job's parameters.
NoRun == [st |-> "none", retries |-> 0, out |-> "none", ups |-> {}]

InitEngine ==
    /\ pending = {}
    /\ executed = {}
    /\ results = [n \in NodeIds |-> "none"]
    /\ status = [i \in AllIds |-> "none"]
    /\ failed_nodes = {}
    /\ skipped_nodes = {}
    /\ futures = {}
    /\ handled = {}
    /\ workers = 0
    /\ flow_instance = "none"
    /\ returned = "none"
    /\ logs = [n \in NodeIds |-> <<>>]
    /\ alerts = [n \in NodeIds |-> <<>>]
    /\ stuck_logs = {}
    /\ job_alerts = [n \in NodeIds |-> <<>>]
    /\ send = NoSend
    /\ rows = [e \in Entities |-> NoRow]
    /\ periodic_tasks = {}
    /\ last_sync = NoSync
    /\ cancel = NoCancel

\* The cancellation of a running FlowInstance is asked for. Nothing in
\* execute reads the request.
cancel_flow_run ==
    /\ pc \in {"loop", "wave", "drain"}
    /\ ~cancel.requested
    /\ cancel' = [requested |-> TRUE,
                  unstarted |-> {n \in nodes : run[n].st \in {"none", "queued"}
                                               /\ status[n] = "none"}]
    /\ UNCHANGED <<flowVars, syncVars, alertVars, engineVars, stuck_logs, run, logs, alerts>>

\* A DAGExecutionEngine constructed for a flow, before execute().
Init ==
    /\ \E f \in Flows :
          /\ nodes = f.nodes
          /\ edges = f.edges
          /\ condition = f.condition
          /\ upstream_results = f.upstream_results
    /\ alert_channels = <<>>
    /\ faulty_channels = {}
    /\ error_strategy \in Strategies
    /\ max_parallel \in 1..MaxParallel
    /\ jobs \in { j \in [NodeIds -> FlowJobs] :
                    /\ \A n \in NodeIds \ nodes : j[n] = OkJob
                    /\ Cardinality({n \in nodes : j[n] # OkJob}) <= MaxFaulty }
    /\ trigger_type = "flow"
    /\ pc = "start"
    /\ run = [n \in NodeIds |-> NoRun]
    /\ InitEngine

Next ==
    \/ execute_start
    \/ execute_submit
    \/ execute_unreachable
    \/ execute_exit
    \/ execute_abort
    \/ execute_drain
    \/ \E n \in NodeIds : execute_node(n)
    \/ \E n \in NodeIds : execute_completed(n)
    \/ \E n \in NodeIds : execute_job_begin(n)
    \/ \E n \in NodeIds : execute_job_end(n)

Spec == Init /\ [][Next]_vars

\* An execute_job task of job "A" queued by the beat schedule or by JobTriggerView.
InitJob ==
    /\ nodes = {}
    /\ edges = {}
    /\ condition = NoConditions
    /\ upstream_results = NoUpstream
    /\ alert_channels = <<>>
    /\ faulty_channels = {}
    /\ error_strategy = ERROR_STRATEGY_FAIL_FAST
    /\ max_parallel = 1
    /\ \E j \in AllJobs : jobs = [n \in NodeIds |-> IF n = "A" THEN j ELSE OkJob]
    /\ trigger_type \in {"cron", "manual"}
    /\ pc = "idle"
    /\ run = [n \in NodeIds |-> IF n = "A" THEN [NoRun EXCEPT !.st = "ready"] ELSE NoRun]
    /\ InitEngine

NextJob ==
    \/ \E n \in NodeIds : execute_job_begin(n)
    \/ \E n \in NodeIds : execute_job_end(n)

SpecJob == InitJob /\ [][NextJob]_vars

\* The values of Job.alert_channels: lists of at most MaxChannels channels.
ChannelLists ==
    UNION {[1..k -> Channels] : k \in 0..MaxChannels}

\* The jobs whose run ends with an alert, or with a retry first.
AlertJobs ==
    { JobRow("set", "python", "error", 0),
      JobRow("set", "python", "error", 1),
      JobRow("set", "shell", "slow", 0) }

\* An execute_job task of job "A" whose alerts are sent by send_job_alert.
InitAlert ==
    /\ nodes = {}
    /\ edges = {}
    /\ condition = NoConditions
    /\ upstream_results = NoUpstream
    /\ alert_channels \in ChannelLists
    /\ faulty_channels \in SUBSET {alert_channels[k] : k \in 1..Len(alert_channels)}
    /\ error_strategy = ERROR_STRATEGY_FAIL_FAST
    /\ max_parallel = 1
    /\ \E j \in AlertJobs : jobs = [n \in NodeIds |-> IF n = "A" THEN j ELSE OkJob]
    /\ trigger_type \in {"cron", "manual"}
    /\ pc = "idle"
    /\ run = [n \in NodeIds |-> IF n = "A" THEN [NoRun EXCEPT !.st = "ready"] ELSE NoRun]
    /\ InitEngine

NextAlert ==
    \/ NextJob
    \/ \E n \in NodeIds : send_job_alert_begin(n)
    \/ send_alert_channel
    \/ send_job_alert_end

SpecAlert == InitAlert /\ [][NextAlert]_vars

\* _can_execute on its own: an engine with any executed set, skipped set and
\* failed set, about to build ready_nodes over all its nodes.
InitReady ==
    /\ \E f \in Flows :
          /\ nodes = f.nodes
          /\ edges = f.edges
          /\ condition = f.condition
          /\ upstream_results = f.upstream_results
    /\ alert_channels = <<>>
    /\ faulty_channels = {}
    /\ error_strategy \in Strategies
    /\ max_parallel = 1
    /\ jobs = [n \in NodeIds |-> OkJob]
    /\ trigger_type = "flow"
    /\ pc = "ready"
    /\ run = [n \in NodeIds |-> NoRun]
    /\ pending = nodes
    /\ executed \in SUBSET nodes
    /\ skipped_nodes \in SUBSET nodes
    /\ failed_nodes \in SUBSET nodes
    /\ results = [n \in NodeIds |-> "none"]
    /\ status = [i \in AllIds |-> "none"]
    /\ futures = {}
    /\ handled = {}
    /\ workers = 0
    /\ flow_instance = "running"
    /\ returned = "none"
    /\ logs = [n \in NodeIds |-> <<>>]
    /\ alerts = [n \in NodeIds |-> <<>>]
    /\ stuck_logs = {}
    /\ job_alerts = [n \in NodeIds |-> <<>>]
    /\ send = NoSend
    /\ rows = [e \in Entities |-> NoRow]
    /\ periodic_tasks = {}
    /\ last_sync = NoSync
    /\ cancel = NoCancel

\* "ready_nodes = [...]": _can_execute is applied to every pending node.
build_ready_nodes ==
    /\ pc = "ready"
    /\ \A n \in pending : ~condition_raises(n)
    /\ futures' = ready_nodes
    /\ pc' = "evaluated"
    /\ UNCHANGED <<flowVars, cancel, syncVars, alertVars, stuck_logs, pending, executed,
                   results, status, failed_nodes, skipped_nodes, handled, workers,
                   flow_instance, returned, run, logs, alerts>>

SpecReady == InitReady /\ [][build_ready_nodes]_vars

\* An execution of a flow of two nodes that may be asked to cancel.
InitCancel ==
    /\ Init
    /\ nodes = {"A", "B"}

NextCancel ==
    \/ Next
    \/ cancel_flow_run

SpecCancel == InitCancel /\ [][NextCancel]_vars

\* Nothing runs; the Job and JobFlow tables and the PeriodicTask table are empty.
InitSync ==
    /\ nodes = {}
    /\ edges = {}
    /\ condition = NoConditions
    /\ upstream_results = NoUpstream
    /\ alert_channels = <<>>
    /\ faulty_channels = {}
    /\ error_strategy = ERROR_STRATEGY_FAIL_FAST
    /\ max_parallel = 1
    /\ jobs = [n \in NodeIds |-> OkJob]
    /\ trigger_type = "cron"
    /\ pc = "idle"
    /\ run = [n \in NodeIds |-> NoRun]
    /\ InitEngine

NextSync ==
    \/ \E e \in Entities, st \in {"enabled", "disabled"}, cron \in CronExprs :
          create_row(e, st, cron)
    \/ \E e \in Entities, st \in {"enabled", "disabled"}, cron \in CronExprs :
          update_row(e, st, cron)
    \/ pause
    \/ resume
    \/ \E e \in Entities : delete_row(e)
    \/ sync_all_schedules

SpecSync == InitSync /\ [][NextSync]_vars

\* The execute_job task next to the periodic check_running_jobs task.
NextCheck ==
    \/ NextJob
    \/ check_running_jobs_query
    \/ \E n \in NodeIds, i \in 1..(MaxRetryCount + 1) : check_running_jobs_mark(n, i)

SpecCheck == InitJob /\ [][NextCheck]_vars

\* ------------------------------------------------------------ properties

Done == pc = "done"

\* Every edge joins two nodes of the flow.
WellFormed == \A e \in edges : e[1] \in nodes /\ e[2] \in nodes

RECURSIVE Closure(_)
Closure(S) ==
    LET T == S \cup {e[2] : e \in {f \in edges : f[1] \in S}} IN
    IF T = S THEN S ELSE Closure(T)

\* The ids reachable from n along one or more edges.
DownstreamClosure(n) == Closure({e[2] : e \in {f \in edges : f[1] = n}})

Acyclic == \A n \in AllIds : n \notin DownstreamClosure(n)

\* The node's execution neither has begun nor has ended.
NotStarted(n) == run[n].st \in {"none", "queued"}

LastLog(n) == logs[n][Len(logs[n])]

\* The node is virtual, or its job ends in 'success' (at once, or on a retry
\* that its retry_count and the task's max_retries both allow).
NodeSucceeds(n) ==
    \/ jobs[n].job_id = "unset"
    \/ /\ jobs[n].job_id = "set"
       /\ \/ jobs[n].behav = "ok"
          \/ jobs[n].behav = "error_once" /\ jobs[n].retry_count >= 1

\* No node's condition is false once the node's dependencies are executed and
\* every job has succeeded.
ConditionsHold ==
    \A n \in nodes :
       \/ condition[n].type \in {"none", "always"}
       \/ condition[n].type = "expression" /\ condition[n].value = "True"
       \/ condition[n].type = "node_success" /\ <<condition[n].node_id, n>> \in edges

\* No node carries a condition that can evaluate to false.
ConditionsTrue ==
    \A n \in nodes :
       \/ condition[n].type \in {"none", "always"}
       \/ condition[n].type = "expression" /\ condition[n].value = "True"

\* C1: a job with retry_count = N whose action fails on every attempt ends with
\* exactly N+1 JobLog rows, the last of them 'failed'.
CexC1 ==
    \A n \in NodeIds :
       (jobs[n].behav = "error" /\ run[n].st = "done")
          => /\ Len(logs[n]) = jobs[n].retry_count + 1
             /\ LastLog(n).status = "failed"

\* C2: a job whose action always exceeds job.timeout ends with exactly one
\* JobLog row, of status 'timeout', whatever its retry_count and job_type.
CexC2 ==
    \A n \in NodeIds :
       (jobs[n].behav = "slow" /\ run[n].st = "done")
          => /\ Len(logs[n]) = 1
             /\ logs[n][1].status = "timeout"

\* C3 as stated: in any acyclic flow in which no node's job fails, execute ends
\* with every node 'success' and the FlowRun 'success'.
CexC3 ==
    (Done /\ Acyclic /\ \A n \in nodes : NodeSucceeds(n))
       => /\ \A n \in nodes : status[n] = "success"
          /\ returned = "success"
          /\ flow_instance = "success"

\* C3 as amended: in any acyclic flow whose edges all join nodes of the flow,
\* in which no node's condition evaluates to false and no node's job fails,
\* execute ends with every node 'success' and the FlowRun 'success'.
ThmC3 ==
    (Done /\ Acyclic /\ WellFormed /\ ConditionsHold /\ \A n \in nodes : NodeSucceeds(n))
       => /\ \A n \in nodes : status[n] = "success"
          /\ returned = "success"
          /\ flow_instance = "success"

WitC3 ==
    /\ Done
    /\ edges = Diamond
    /\ \A n \in nodes : NodeSucceeds(n)
    /\ jobs["B"].behav = "error_once"
    /\ \A n \in nodes : status[n] = "success"
    /\ returned = "success"

\* C4: under fail_fast, once the engine has recorded a failed node, no node
\* that has not started begins to execute, and each such node is 'skipped'
\* when execute returns.
CexC4 ==
    [][ (error_strategy = ERROR_STRATEGY_FAIL_FAST /\ failed_nodes # {})
          => \A n \in nodes :
                NotStarted(n) => /\ run'[n].st \in {"none", "queued"}
                                 /\ (pc' = "done" => status'[n] = "skipped") ]_vars

\* The nodes whose execution ended in failure (a 'failed' result or an exception).
FailedRuns == {a \in nodes : run[a].out \in {"failed", "raised"}}

ScenarioC6 ==
    /\ nodes = {"A", "B", "C", "D"}
    /\ edges = Diamond
    /\ error_strategy = ERROR_STRATEGY_CONTINUE
    /\ jobs["B"] = JobRow("set", "python", "error_once", 1)
    /\ \A n \in {"A", "C", "D"} : jobs[n] = OkJob

\* C6: in that scenario the FlowRun ends 'success', and D has a JobLog only
\* once B's retry and C have ended.
ThmC6 ==
    ScenarioC6
       => /\ Done => (returned = "success" /\ flow_instance = "success")
          /\ logs["D"] # <<>>
                => /\ run["B"].st = "done"
                   /\ Len(logs["B"]) = 2
                   /\ logs["B"][1].status = "failed"
                   /\ logs["B"][2].status = "success"
                   /\ run["C"].st = "done"
                   /\ LastLog("C").status = "success"

WitC6 ==
    /\ ScenarioC6
    /\ Done
    /\ returned = "success"
    /\ Len(logs["B"]) = 2
    /\ logs["D"] # <<>>

\* C7: executing a flow with a dangling edge creates no FlowInstance and
\* starts no node.
CexC7 ==
    ~WellFormed
       => /\ flow_instance = "none"
          /\ \A n \in NodeIds : NotStarted(n)

\* C8: executing a flow whose edges form a cycle starts no node and is not
\* reported as a 'partial' or 'success' run.
CexC8 ==
    ~Acyclic
       => /\ \A n \in NodeIds : NotStarted(n)
          /\ returned \notin {"partial", "success"}

\* C9: a node whose job ended 'timeout' is in the failed set, and the FlowRun
\* ends 'failed'.
CexC9 ==
    \A n \in nodes :
       results[n] = "timeout"
          => /\ n \in failed_nodes
             /\ (Done => returned = "failed")

\* C10: the status execute records and returns is 'failed' if a node failed,
\* else 'partial' if a node was skipped, else 'success'.
ThmC10 ==
    Done
       => /\ (failed_nodes # {} => returned = "failed")
          /\ (failed_nodes = {} /\ skipped_nodes # {} => returned = "partial")
          /\ (failed_nodes = {} /\ skipped_nodes = {} => returned = "success")
          /\ flow_instance = returned

WitC10 ==
    /\ Done
    /\ failed_nodes = {}
    /\ skipped_nodes # {}
    /\ returned = "partial"
    /\ flow_instance = "partial"

\* The statuses a node can end with.
TerminalNodeStatus == {"success", "failed", "timeout", "error", "skipped"}

\* C11: once a node id has a status in self.status, no later step of the
\* execution gives it a different one.
ThmC11 ==
    [][ \A i \in AllIds : status[i] # "none" => status'[i] = status[i] ]_vars

\* Under skip_downstream a node has failed, its downstream is skipped, and an
\* independent node got its status in another step.
WitC11 ==
    /\ Done
    /\ error_strategy = ERROR_STRATEGY_SKIP_DOWNSTREAM
    /\ nodes = {"A", "B", "C"}
    /\ status["A"] = "failed"
    /\ status["B"] = "skipped"
    /\ status["C"] = "success"

ThmC13 ==
    \A n \in nodes :
       ~NotStarted(n)
          => \A e \in edges :
                e[2] = n => /\ e[1] \in executed
                            /\ run[e[1]].st = "done"
                            /\ status[e[1]] \in TerminalNodeStatus

\* The join of the diamond is being executed.
WitC13 ==
    /\ edges = Diamond
    /\ run["D"].st = "running"
    /\ {"B", "C"} \subseteq executed

\* C14: at most max_parallel node executions are in flight, and every node
\* outside the current wave has either not been submitted or has finished.
ThmC14 ==
    /\ Cardinality({n \in NodeIds : run[n].st \in {"ready", "running"}}) <= max_parallel
    /\ \A n \in NodeIds \ futures : run[n].st \in {"none", "done"}

\* Three ready nodes, max_parallel = 2: two are in flight and one waits.
WitC14 ==
    /\ max_parallel = 2
    /\ Cardinality(futures) = 3
    /\ Cardinality({n \in NodeIds : run[n].st \in {"ready", "running"}}) = 2
    /\ \E n \in futures : run[n].st = "queued"

\* C15 (as the code has it): a step of a node's worker leaves results,
\* self.status, failed_nodes, skipped_nodes, pending and executed as they
\* are, and a result the worker merged from one of the node's dependencies
\* was recorded before the node's wave began.
ThmC15 ==
    [][ /\ (\E n \in NodeIds : run'[n] # run[n] /\ run[n].st # "none")
           => UNCHANGED <<results, status, failed_nodes, skipped_nodes,
                          pending, executed>>
        /\ \A n \in NodeIds :
              run'[n].st \in {"ready", "running"}
                 => run'[n].ups \cap build_dependencies(n) \cap futures' = {} ]_vars

\* The worker of B has merged the result of its dependency A.
WitC15 ==
    /\ edges = Chain
    /\ run["B"].st = "running"
    /\ run["B"].ups = {"A"}

\* C15: a worker in flight has read no result of a node of its own wave.
CexC15 ==
    \A n \in NodeIds :
       run[n].st \in {"ready", "running"} => run[n].ups \cap futures = {}

\* The statuses a JobLog row can end with.
TerminalLogStatus == {"success", "failed", "timeout"}

\* C16: a JobLog row whose status is terminal keeps that status in every step.
CexC16 ==
    [][ \A n \in NodeIds : \A i \in 1..Len(logs[n]) :
           logs[n][i].status \in TerminalLogStatus
              => logs'[n][i].status = logs[n][i].status ]_vars

\* Evaluating the node's condition raises: the eval of its expression does, or
\* the condition is no dictionary.
ConditionRaises(n) ==
    \/ condition[n].type = "expression" /\ condition[n].value = "raise"
    \/ condition[n].type = "malformed"

\* C17: when execute has returned, a node without dependencies whose condition
\* raised is recorded 'failed', the FlowInstance is 'failed', and execute left
\* its loop in the regular way.
CexC17 ==
    \A n \in nodes :
       (pc \in {"done", "error"} /\ build_dependencies(n) = {} /\ ConditionRaises(n))
          => /\ pc = "done"
             /\ status[n] = "failed"
             /\ n \in failed_nodes
             /\ returned = "failed"

\* C18: execute ends by returning a dictionary with a status, and when a node
\* has failed under fail_fast or skip_downstream, by a 'failed' result or by
\* an exception of its job, the nodes that depend on it are skipped without
\* having been run.
CexC18 ==
    pc \in {"done", "error"}
       => /\ returned \in {"success", "failed", "partial"}
          /\ \A d \in failed_nodes : \A n \in nodes :
                (<<d, n>> \in edges /\ error_strategy # ERROR_STRATEGY_CONTINUE)
                   => status[n] = "skipped" /\ NotStarted(n)

\* C19: when send_job_alert has saved a JobAlert as 'sent', a sender was called
\* for every channel of the job's alert_channels, and the JobLog still has
\* the status the alert was scheduled for.
CexC19 ==
    \A n \in NodeIds :
       (job_alerts[n] # <<>> /\ job_alerts[n][Len(job_alerts[n])].status = "sent")
          => /\ \A k \in 1..Len(alert_channels) : alert_channels[k] \in send.attempted
             /\ LastLog(n).status =
                  (IF job_alerts[n][Len(job_alerts[n])].alert_type = "failure"
                   THEN "failed" ELSE "timeout")

\* The number of failure alerts scheduled for job n.
FailureAlerts(n) == Cardinality({k \in 1..Len(alerts[n]) : alerts[n][k] = "failure"})

\* C20: for a job with alert_on_failure, no failure alert is scheduled while
\* attempts are still to come, and exactly one is scheduled once the run has
\* ended with a failed attempt that no retry follows.
CexC20 ==
    \A n \in NodeIds :
       jobs[n].alert_on_failure
          => /\ run[n].st # "done" => FailureAlerts(n) = 0
             /\ (run[n].st = "done" /\ run[n].out \in {"failed", "raised"})
                   => FailureAlerts(n) = 1

\* The PeriodicTask rows named for e.
TasksOf(e) == {t \in periodic_tasks : t.name = task_name(e)}

\* C21: a sync called again for an unchanged row leaves the PeriodicTask rows
\* as the first call left them, and no job or flow has two PeriodicTask rows.
ThmC21 ==
    [][ /\ last_sync'.again => periodic_tasks' = periodic_tasks
        /\ \A e \in Entities : Cardinality({t \in periodic_tasks' : t.name = task_name(e)}) <= 1
      ]_vars

\* The enabled job was synced twice in a row and has its PeriodicTask.
WitC21 ==
    /\ last_sync.again
    /\ last_sync.entity = "job"
    /\ TasksOf("job") # {}
    /\ TasksOf("flow") # {}

\* C22: a job or flow that is deleted, disabled or without cron_expr has no
\* PeriodicTask row.
ThmC22 ==
    \A e \in Entities :
       (~rows[e].exists \/ rows[e].status # "enabled" \/ rows[e].cron_expr = NoCron)
          => TasksOf(e) = {}

\* The job, with a five-part cron_expr, was just saved as disabled, and the
\* flow still has its PeriodicTask.
WitC22 ==
    /\ last_sync.entity = "job"
    /\ rows["job"].exists
    /\ rows["job"].status = "disabled"
    /\ Len(rows["job"].cron_expr) = 5
    /\ TasksOf("job") = {}
    /\ TasksOf("flow") # {}

\* C23: when execute has returned after a cancellation was asked for, the
\* FlowInstance is 'cancelled' and so is every node that had not started
\* when it was asked for.
CexC23 ==
    (pc \in {"done", "error"} /\ cancel.requested)
       => /\ flow_instance = "cancelled"
          /\ \A n \in cancel.unstarted : status[n] = "cancelled"

\* No FlowInstance and no node is ever 'cancelled'.
NeverCancelled ==
    /\ flow_instance # "cancelled"
    /\ \A i \in AllIds : status[i] # "cancelled"

\* The direct upstream nodes of n.
Dependencies(n) == {d \in AllIds : <<d, n>> \in edges}

\* C24: a node without a condition passes _can_execute exactly when all its
\* dependencies are executed, it is not skipped, and, under skip_downstream,
\* none of its dependencies has failed.
ThmC24 ==
    pc = "evaluated"
       => \A n \in nodes :
             condition[n].type = "none"
                => (n \in futures
                      <=> /\ Dependencies(n) \subseteq executed
                          /\ n \notin skipped_nodes
                          /\ (error_strategy = ERROR_STRATEGY_SKIP_DOWNSTREAM
                                 => Dependencies(n) \cap failed_nodes = {}))

\* Under skip_downstream the join of the diamond has both dependencies
\* executed and one of them failed, and is not ready; the other nodes are.
WitC24 ==
    /\ pc = "evaluated"
    /\ edges = Diamond
    /\ error_strategy = ERROR_STRATEGY_SKIP_DOWNSTREAM
    /\ executed = {"A", "B", "C"}
    /\ failed_nodes = {"B"}
    /\ skipped_nodes = {}
    /\ futures = {"A", "B", "C"}

\* The node's condition is false in the first round of the loop, when no
\* node has a status yet.
FalseAtStart(n) ==
    \/ condition[n].type \in {"node_success", "node_failed"}
    \/ condition[n].type = "expression" /\ condition[n].value \in {"False", "raise"}

\* C25: a node without dependencies whose condition was false when the loop
\* first evaluated it is 'skipped' when execute has returned, and its job was
\* never invoked.
CexC25 ==
    \A n \in nodes :
       (Done /\ build_dependencies(n) = {} /\ FalseAtStart(n))
          => status[n] = "skipped" /\ logs[n] = <<>>

\* The status a node of the given job ends with when it is executed, whatever
\* the other nodes do.
OwnStatus(job) ==
    CASE job.job_id = "unset" -> "success"
      [] job.job_id = "unknown" -> "error"
      [] job.behav = "ok" -> "success"
      [] job.behav = "error" -> "failed"
      [] job.behav = "error_once" -> IF job.retry_count >= 1 THEN "success" ELSE "failed"
      [] job.behav = "slow" /\ job.job_type = "shell" -> "timeout"
      [] job.behav = "slow" /\ job.job_type = "http" -> "failed"
      [] OTHER -> "success"

CexC27 ==
    /\ pc \in {"wave", "drain"} => futures # {}
    /\ pc = "loop" => pending \cap futures = {}
    /\ pc \in {"done", "error"}
          => /\ pending \subseteq skipped_nodes
             /\ \A n \in nodes : status[n] # "none"

\* C28: a node whose status is 'skipped' has no JobLog of this execution.
CexC28 ==
    \A n \in nodes : status[n] = "skipped" => logs[n] = <<>>

\* C29: execute returns 'success' only if every node of the flow has the
\* status 'success'.
CexC29 ==
    (Done /\ returned = "success")
       => \A n \in nodes : status[n] = "success"

\* C30: the PeriodicTask of an enabled job or flow, when there is one, has the
\* crontab of the row's current cron_expr.
CexC30 ==
    \A e \in Entities :
       (rows[e].exists /\ rows[e].status = "enabled")
          => \A t \in TasksOf(e) : t.crontab = parse_cron_expr(rows[e].cron_expr)

====
